---------------------------- MODULE Spec2Model ----------------------------
(***************************************************************************)
(* Document processing orchestrator and background task manager.          *)
(*                                                                         *)
(* The specifications share one set of variables:                          *)
(*   SpecTM  BackgroundTaskManager driven by an arbitrary client that      *)
(*           submits work under a key; the work and the callbacks are      *)
(*           opaque coroutines that return or raise.                       *)
(*   Spec    the program: upload_document inserts a document and submits   *)
(*           DocumentService._index_document_task under the document id,   *)
(*           with _on_index_complete as completion callback.               *)
(*   SpecFault  Spec with a document store whose get and save may raise.   *)
(*   SpecChunk  RAGService._chunk_text applied to a token sequence.        *)
(*   SpecQuery  RAGService.query_documents applied to a collection.        *)
(*                                                                         *)
(* One action is one run of the event loop between two suspension points   *)
(* (await) of a coroutine.  Progress fractions are written in tenths       *)
(* (0.2 is 2, 1.0 is 10).  datetime.utcnow() is the logical time of the    *)
(* run that reads the clock: the run's sequence number.                    *)
(*                                                                         *)
(* The stage providers are external: a stage call returns or raises.  The  *)
(* document store is external too: get returns a fresh copy of the stored  *)
(* document, save replaces the stored document by the in-memory one, and   *)
(* neither fails except in SpecFault.                                      *)
(***************************************************************************)
EXTENDS Naturals, Integers, Sequences, FiniteSets, TLC

\* Document ids; a document id is also the key of its task.
Docs == {"d1", "d2"}

\* Bound on the number of create_task calls the client of SpecTM makes.
MaxCalls == 3

\* Bound on the depth of nested _index_document_task invocations of one task.
MaxDepth == 3

None == "None"

\* dict helpers: d[k] = v, and del d[k].
Put(f, k, v) == (k :> v) @@ f

Del(f, k) == [x \in DOMAIN f \ {k} |-> f[x]]

Stages ==
  {"text_extraction", "classification", "entity_extraction",
   "table_extraction", "summarization", "rag_indexing"}

\* analysis_tasks of _index_document_task: step and the progress set before
\* the analysis call.
analysis_tasks ==
  << <<"classification", 3>>, <<"entity_extraction", 4>>,
     <<"table_extraction", 5>>, <<"summarization", 6>> >>

\* DocumentModel.max_retries default.
max_retries_default == 3

\* Retry budgets of the documents in the store: the default, and the
\* smallest budget, for which the first failure of a stage exhausts it.
MaxRetriesChoices == {1, max_retries_default}

VARIABLES
  store,        \* document store: id -> persisted DocumentModel
  stack,        \* per document: the nested _index_document_task invocations
  calls,        \* per key: create_task coroutines scheduled and not yet run
  tasks,        \* BackgroundTaskManager._tasks: key -> run
  task_status,  \* BackgroundTaskManager._task_status: key -> entry
  runs,         \* the wrapped_task coroutines ever created, in creation order
  timers,       \* pending _cleanup_status coroutines, in scheduling order
  warned,       \* per key: "already running" warnings create_task logged
  collection,   \* ids of the documents with chunks in the Chroma collection
  chunker,      \* a call of RAGService._chunk_text: arguments and result
  query         \* a call of RAGService.query_documents: inputs and result

vars ==
  <<store, stack, calls, tasks, task_status, runs, timers, warned, collection,
    chunker, query>>

RunIds == 1..Len(runs)

\* No call of the function is under way.
NoCall == [pc |-> "idle"]

-----------------------------------------------------------------------------
(* BackgroundTaskManager *)

\* The empty dict get_task_status returns for a key without entry.
EmptyStatus == [x \in {} |-> None]

get_task_status(k) ==
  IF k \in DOMAIN task_status THEN task_status[k] ELSE EmptyStatus

is_task_running(k) == k \in DOMAIN tasks

\* The entry wrapped_task writes first.
RunningEntry(r) ==
  [status |-> "running", start_time |-> r, error |-> None]

\* The entry after the two item assignments that follow the work.
CompletedEntry(e, r) ==
  Put([e EXCEPT !.status = "completed"], "completion_time", r)

\* The entry the except branch writes: a new dict without start_time.
FailedEntry(err, r) ==
  [status |-> "failed", error |-> err, completion_time |-> r]

\* The run whose clock reading an entry carries.
Writer(e) == IF e.status = "running" THEN e.start_time ELSE e.completion_time

NewRun(k) ==
  [key |-> k, pc |-> "scheduled", work |-> None, recorded |-> None,
   callback |-> None, cb |-> None]

\* The guard of create_task left out.
AlreadyRunningMutant(k) == FALSE

\* The guard of create_task.

AlreadyRunning(k) == k \in DOMAIN tasks

RECURSIVE Total(_, _)
Total(f, K) ==
  IF K = {} THEN 0
  ELSE LET k == CHOOSE x \in K : TRUE IN f[k] + Total(f, K \ {k})

\* A client schedules a create_task call for key k.
Submit(k) ==
  /\ Len(runs) + Total(calls, Docs) + Total(warned, Docs) < MaxCalls
  /\ calls' = [calls EXCEPT ![k] = @ + 1]
  /\ UNCHANGED <<store, stack, tasks, task_status, runs, timers, warned, collection, chunker, query>>

\* create_task runs: it logs a warning and returns at once when the key is
\* active, and otherwise creates the wrapped task and registers it.
CreateTaskBody(k) ==
  IF AlreadyRunning(k)
    THEN /\ warned' = [warned EXCEPT ![k] = @ + 1]
         /\ UNCHANGED <<tasks, runs>>
    ELSE /\ runs' = Append(runs, NewRun(k))
         /\ tasks' = Put(tasks, k, Len(runs) + 1)
         /\ UNCHANGED warned

CreateTask(k) ==
  /\ calls[k] > 0
  /\ calls' = [calls EXCEPT ![k] = @ - 1]
  /\ CreateTaskBody(k)
  /\ UNCHANGED <<store, stack, task_status, timers, collection, chunker, query>>

\* wrapped_task begins: the status entry is written and the work is awaited.
WrappedStart(r) ==
  /\ runs[r].pc = "scheduled"
  /\ task_status' = Put(task_status, runs[r].key, RunningEntry(r))
  /\ runs' = [runs EXCEPT ![r].pc = "working"]

\* The work returned.  The item assignment on the entry raises KeyError when
\* the entry is gone, which the except branch handles like a failure of the
\* work.
WrappedReturn(r) ==
  LET k == runs[r].key IN
  /\ runs[r].pc = "working"
  /\ IF k \notin DOMAIN task_status
       THEN /\ task_status' = Put(task_status, k, FailedEntry("KeyError", r))
            /\ runs' = [runs EXCEPT ![r].pc = "on_error", ![r].work = "returned",
                                    ![r].recorded = "failed",
                                    ![r].callback = "on_error"]
       ELSE /\ task_status' = Put(task_status, k, CompletedEntry(task_status[k], r))
            /\ runs' = [runs EXCEPT ![r].pc = "on_complete", ![r].work = "returned",
                                    ![r].recorded = "completed",
                                    ![r].callback = "on_complete"]

\* The work raised.
WrappedRaise(r) ==
  LET k == runs[r].key IN
  /\ runs[r].pc = "working"
  /\ task_status' = Put(task_status, k, FailedEntry("error", r))
  /\ runs' = [runs EXCEPT ![r].pc = "on_error", ![r].work = "raised",
                          ![r].recorded = "failed", ![r].callback = "on_error"]

\* The finally block that keeps the key in _tasks.
FinallyMutant(r, pc, cb) ==
  /\ tasks' = tasks
  /\ timers' = Append(timers, r)
  /\ runs' = [runs EXCEPT ![r].pc = pc, ![r].cb = cb]

\* The finally block (lines 67-72) drops the key from _tasks and schedules
\* _cleanup_status; wrapped_task then ends at pc, its callback having ended
\* as cb.
Finally(r, pc, cb) ==
  /\ tasks' = Del(tasks, runs[r].key)
  /\ timers' = Append(timers, r)
  /\ runs' = [runs EXCEPT ![r].pc = pc, ![r].cb = cb]

\* wrapped_task awaiting on_error as well once on_complete has returned.
WrappedFinallyMutant(r) ==
  /\ runs[r].pc \in {"on_complete", "on_error"}
  /\ IF runs[r].callback = "on_complete"
       THEN /\ runs' = [runs EXCEPT ![r].pc = "on_error", ![r].callback = "on_error"]
            /\ UNCHANGED <<tasks, timers>>
       ELSE Finally(r, "done", "returned")

\* The callback returned; the finally block follows.
WrappedFinally(r) ==
  /\ runs[r].pc \in {"on_complete", "on_error"}
  /\ Finally(r, "done", "returned")

\* wrapped_task without the try that encloses the await of on_complete.
CaughtMutant(callback) == callback # "on_complete"

\* Each callback is awaited inside a try of its own whose except clause
\* logs the exception (lines 48-51 and 63-66).
Caught(callback) == callback \in {"on_complete", "on_error"}

\* The callback raised.  Caught by the try around it, the exception is logged
\* and the finally block follows.  An exception of on_complete that no inner
\* try caught would reach the except clause of line 53, and one of on_error
\* would leave wrapped_task through the finally block.
WrappedCallbackRaise(r) ==
  LET k == runs[r].key IN
  /\ runs[r].pc \in {"on_complete", "on_error"}
  /\ IF Caught(runs[r].callback)
       THEN /\ Finally(r, "done", "raised")
            /\ UNCHANGED task_status
       ELSE IF runs[r].callback = "on_complete"
         THEN /\ task_status' = Put(task_status, k, FailedEntry("error", r))
              /\ runs' = [runs EXCEPT ![r].pc = "on_error",
                                      ![r].recorded = "failed",
                                      ![r].callback = "on_error"]
              /\ UNCHANGED <<tasks, timers>>
         ELSE /\ Finally(r, "crashed", "raised")
              /\ UNCHANGED task_status

\* _cleanup_status after its sleep.  All sleeps have the same delay, so the
\* coroutines wake in the order they were scheduled.
CleanupStatus ==
  /\ timers # << >>
  /\ task_status' = Del(task_status, runs[Head(timers)].key)
  /\ timers' = Tail(timers)
  /\ UNCHANGED <<store, stack, calls, tasks, runs, warned, collection, chunker, query>>

\* Steps of a task whose work and callbacks are opaque.
StartWork(r) ==
  /\ WrappedStart(r)
  /\ UNCHANGED <<store, stack, calls, tasks, timers, warned, collection, chunker, query>>

WorkReturns(r) ==
  /\ WrappedReturn(r)
  /\ UNCHANGED <<store, stack, calls, tasks, timers, warned, collection, chunker, query>>

WorkRaises(r) ==
  /\ WrappedRaise(r)
  /\ UNCHANGED <<store, stack, calls, tasks, timers, warned, collection, chunker, query>>

CallbackEnds(r) ==
  /\ WrappedFinally(r)
  /\ UNCHANGED <<store, stack, calls, task_status, warned, collection, chunker, query>>

CallbackRaises(r) ==
  /\ WrappedCallbackRaise(r)
  /\ UNCHANGED <<store, stack, calls, warned, collection, chunker, query>>

-----------------------------------------------------------------------------
(* DocumentModel and DocumentService *)

\* indexing_error: None, or the text of one of the two messages.
NoError == [kind |-> "none", step |-> "", attempts |-> 0]

\* f"Failed to process {step} after {retries} attempts: ..."
FailedToProcess(step, retries) ==
  [kind |-> "failed_to_process", step |-> step, attempts |-> retries]

\* f"Unexpected error: {str(e)}", e being the KeyError of the missing step.
UnexpectedError(step) ==
  [kind |-> "unexpected", step |-> step, attempts |-> 0]

\* The document upload_document inserts, with the defaults of DocumentModel.
NewDocument(m) ==
  [indexing_status |-> "pending",
   indexing_error |-> NoError,
   file_text_content |-> "",
   file_extracted_details |-> None,
   processing_progress |-> [s \in Stages |-> 0],
   processing_retries |-> [s \in Stages |-> 0],
   max_retries |-> m]

\* An invocation of _index_document_task: its position, its in-memory
\* document (DocumentModel.get returns a fresh object), the index of the
\* loop over analysis_tasks, once a stage raised the step passed to
\* _handle_processing_error, and per stage the last progress value the
\* invocation passed to _update_processing_progress (0: none yet).
NewFrame ==
  [pc |-> "start", document |-> None, i |-> 0, step |-> None,
   reported |-> [s \in Stages |-> 0]]

Top(d) == stack[d][Len(stack[d])]

\* An invocation that may step only while no other document has a task in
\* the pipeline.
AtPcMutant(d, pc) ==
  /\ stack[d] # << >> /\ Top(d).pc = pc
  /\ \A o \in Docs \ {d} : stack[o] = << >>

\* The top invocation of d's task is at pc.
AtPc(d, pc) == stack[d] # << >> /\ Top(d).pc = pc

\* The top invocation moves to pc with in-memory document doc.
Goto(d, pc, doc, i) ==
  stack' = [stack EXCEPT ![d][Len(stack[d])] =
              [@ EXCEPT !.pc = pc, !.document = doc, !.i = i, !.step = None]]

\* The same after _update_processing_progress(document, step, progress)
\* set and saved the progress of step.
GotoReported(d, pc, doc, i, step) ==
  stack' = [stack EXCEPT ![d][Len(stack[d])] =
              [@ EXCEPT !.pc = pc, !.document = doc, !.i = i, !.step = None,
                        !.reported[step] = doc.processing_progress[step]]]

\* The same, inside the except clause that handles a failure of step.
GotoHandler(d, pc, doc, step) ==
  stack' = [stack EXCEPT ![d][Len(stack[d])] =
              [@ EXCEPT !.pc = pc, !.document = doc, !.i = 0, !.step = step]]

\* document.save(): the whole in-memory document replaces the stored one.
Save(d, doc) == store' = [store EXCEPT ![d] = doc]

TM_unchanged ==
  UNCHANGED <<calls, tasks, task_status, runs, timers, warned, chunker, query>>

SetProgress(doc, step, progress) ==
  [doc EXCEPT !.processing_progress[step] = progress]

\* upload_document: insert the document and schedule create_task for it.
Upload(d, m) ==
  /\ d \notin DOMAIN store
  /\ store' = Put(store, d, NewDocument(m))
  /\ calls' = [calls EXCEPT ![d] = @ + 1]
  /\ UNCHANGED <<stack, tasks, task_status, runs, timers, warned, collection, chunker, query>>

\* wrapped_task begins and enters _index_document_task.
StartIndexTask(r) ==
  /\ WrappedStart(r)
  /\ stack' = [stack EXCEPT ![runs[r].key] = <<NewFrame>>]
  /\ UNCHANGED <<store, calls, tasks, timers, warned, collection, chunker, query>>

\* Lines 73-79: load the document, set status processing, save.
Begin(d) ==
  /\ AtPc(d, "start")
  /\ LET doc == [store[d] EXCEPT !.indexing_status = "processing"] IN
       /\ Save(d, doc)
       /\ Goto(d, "te_progress", doc, 0)
  /\ UNCHANGED collection
  /\ TM_unchanged

\* Line 83.
ProgressTextExtraction(d) ==
  /\ AtPc(d, "te_progress")
  /\ LET doc == SetProgress(Top(d).document, "text_extraction", 2) IN
       /\ Save(d, doc)
       /\ GotoReported(d, "te_extract", doc, 0, "text_extraction")
  /\ UNCHANGED collection
  /\ TM_unchanged

\* Lines 84-85: extraction returns the text.
ExtractOk(d) ==
  /\ AtPc(d, "te_extract")
  /\ LET doc == SetProgress([Top(d).document EXCEPT !.file_text_content = "text"],
                            "text_extraction", 10) IN
       /\ Save(d, doc)
       /\ GotoReported(d, "an_pre", doc, 1, "text_extraction")
  /\ UNCHANGED collection
  /\ TM_unchanged

\* The delay of the backoff sleep: asyncio.sleep(2 ** retries) (line 65).
backoff(retries) == 2 ^ retries

\* The comparison of line 58 with > in place of >=.
ExhaustedMutant(retries, max) == retries > max

\* _handle_processing_error up to its first await: the counter of the step
\* is incremented in memory and compared with max_retries.
Exhausted(retries, max) == retries >= max

Incremented(doc, step) ==
  [doc EXCEPT !.processing_retries[step] = @ + 1]

\* An except clause that swallows the failure of the stage and lets the
\* invocation go on to the indexing stage.
StageRaisesMutant(d, step) ==
  /\ GotoHandler(d, "rag_progress", Top(d).document, step)
  /\ UNCHANGED store

\* A stage raised at line 84, 102 or 115 and the except clause calls
\* _handle_processing_error(document, step, e).  A step that is no key of
\* processing_retries makes the increment raise KeyError, which the outer
\* except clause (lines 128-132) turns into status failed.
StageRaises(d, step) ==
  LET doc == Top(d).document IN
  IF step \notin DOMAIN doc.processing_retries
    THEN LET failed == [doc EXCEPT !.indexing_status = "failed",
                                   !.indexing_error = UnexpectedError(step)] IN
         /\ Save(d, failed)
         /\ GotoHandler(d, "return", failed, step)
    ELSE LET inc == Incremented(doc, step)
             retries == inc.processing_retries[step] IN
         IF Exhausted(retries, inc.max_retries)
           THEN /\ GotoHandler(d, "h_save",
                        [inc EXCEPT !.indexing_status = "failed",
                                    !.indexing_error = FailedToProcess(step, retries)],
                        step)
                /\ UNCHANGED store
           ELSE /\ GotoHandler(d, "h_sleep", inc, step)
                /\ UNCHANGED store

ExtractFails(d) ==
  /\ AtPc(d, "te_extract")
  /\ StageRaises(d, "text_extraction")
  /\ UNCHANGED collection
  /\ TM_unchanged

\* Lines 99-100: one pass of the first loop over analysis_tasks.
ProgressAnalysis(d) ==
  /\ AtPc(d, "an_pre")
  /\ LET i == Top(d).i
         doc == SetProgress(Top(d).document, analysis_tasks[i][1], analysis_tasks[i][2]) IN
       /\ Save(d, doc)
       /\ IF i < Len(analysis_tasks)
            THEN GotoReported(d, "an_pre", doc, i + 1, analysis_tasks[i][1])
            ELSE GotoReported(d, "an_call", doc, 0, analysis_tasks[i][1])
  /\ UNCHANGED collection
  /\ TM_unchanged

\* Lines 102-103: analyze_document gathers the four results, stores them on
\* the document and saves it.
AnalyzeOk(d) ==
  /\ AtPc(d, "an_call")
  /\ LET doc == [Top(d).document EXCEPT !.file_extracted_details = "analysis"] IN
       /\ Save(d, doc)
       /\ Goto(d, "an_post", doc, 1)
  /\ UNCHANGED collection
  /\ TM_unchanged

\* One of the four gathered calls raised.
AnalyzeFails(d) ==
  /\ AtPc(d, "an_call")
  /\ StageRaises(d, "document_analysis")
  /\ UNCHANGED collection
  /\ TM_unchanged

\* Lines 105-106: one pass of the second loop over analysis_tasks.
CompleteAnalysis(d) ==
  /\ AtPc(d, "an_post")
  /\ LET i == Top(d).i
         doc == SetProgress(Top(d).document, analysis_tasks[i][1], 10) IN
       /\ Save(d, doc)
       /\ IF i < Len(analysis_tasks)
            THEN GotoReported(d, "an_post", doc, i + 1, analysis_tasks[i][1])
            ELSE GotoReported(d, "rag_progress", doc, 0, analysis_tasks[i][1])
  /\ UNCHANGED collection
  /\ TM_unchanged

\* Line 114.
ProgressIndexing(d) ==
  /\ AtPc(d, "rag_progress")
  /\ LET doc == SetProgress(Top(d).document, "rag_indexing", 7) IN
       /\ Save(d, doc)
       /\ GotoReported(d, "rag_index", doc, 0, "rag_indexing")
  /\ UNCHANGED collection
  /\ TM_unchanged

\* Line 116 reporting 0.1 where the code reports 1.0.
IndexOkMutant(d) ==
  /\ AtPc(d, "rag_index")
  /\ LET doc == SetProgress(Top(d).document, "rag_indexing", 1) IN
       /\ Save(d, doc)
       /\ GotoReported(d, "complete", doc, 0, "rag_indexing")
  /\ collection' = collection \cup {d}
  /\ TM_unchanged

\* Lines 115-116: index_document adds the chunks of the document to the
\* collection.
IndexOk(d) ==
  /\ AtPc(d, "rag_index")
  /\ LET doc == SetProgress(Top(d).document, "rag_indexing", 10) IN
       /\ Save(d, doc)
       /\ GotoReported(d, "complete", doc, 0, "rag_indexing")
  /\ collection' = collection \cup {d}
  /\ TM_unchanged

IndexFails(d) ==
  /\ AtPc(d, "rag_index")
  /\ StageRaises(d, "rag_indexing")
  /\ UNCHANGED collection
  /\ TM_unchanged

\* Lines 122-124.
MarkCompleted(d) ==
  /\ AtPc(d, "complete")
  /\ LET doc == [Top(d).document EXCEPT !.indexing_status = "completed",
                                        !.indexing_error = NoError] IN
       /\ Save(d, doc)
       /\ Goto(d, "return", doc, 0)
  /\ UNCHANGED collection
  /\ TM_unchanged

\* A handler that resumes at the stage that failed, with its own document,
\* in place of invoking _index_document_task.
ReinvokeMutant(d) ==
  /\ AtPc(d, "h_sleep")
  /\ Len(stack[d]) < MaxDepth
  /\ stack' = [stack EXCEPT
                 ![d] = Append([@ EXCEPT ![Len(@)].pc = "h_await"],
                               [NewFrame EXCEPT
                                  !.pc = IF Top(d).step = "rag_indexing"
                                           THEN "rag_progress" ELSE "te_progress",
                                  !.document = Top(d).document])]
  /\ UNCHANGED store
  /\ UNCHANGED collection
  /\ TM_unchanged

\* Lines 65-66: the backoff sleep is over and the handler awaits a new
\* invocation of _index_document_task.
Reinvoke(d) ==
  /\ AtPc(d, "h_sleep")
  /\ Len(stack[d]) < MaxDepth
  /\ stack' = [stack EXCEPT
                 ![d] = Append([@ EXCEPT ![Len(@)].pc = "h_await"], NewFrame)]
  /\ UNCHANGED store
  /\ UNCHANGED collection
  /\ TM_unchanged

\* A nested invocation returns to the handler that awaited it.
ReturnToHandler(d) ==
  /\ AtPc(d, "return")
  /\ Len(stack[d]) > 1
  /\ stack' = [stack EXCEPT
                 ![d] = [SubSeq(@, 1, Len(@) - 1) EXCEPT ![Len(@) - 1].pc = "h_save"]]
  /\ UNCHANGED store
  /\ UNCHANGED collection
  /\ TM_unchanged

\* Line 68: the handler saves its in-memory document and returns; the
\* invocation returns after it (lines 88, 119).
HandlerSave(d) ==
  /\ AtPc(d, "h_save")
  /\ Save(d, Top(d).document)
  /\ GotoHandler(d, "return", Top(d).document, Top(d).step)
  /\ UNCHANGED collection
  /\ TM_unchanged

\* An outermost invocation that raises when it leaves the document failed.
IndexTaskReturnsMutant(r) ==
  /\ Len(stack[runs[r].key]) = 1
  /\ AtPc(runs[r].key, "return")
  /\ IF store[runs[r].key].indexing_status = "failed"
       THEN WrappedRaise(r)
       ELSE WrappedReturn(r)
  /\ stack' = [stack EXCEPT ![runs[r].key] = << >>]
  /\ UNCHANGED <<store, calls, tasks, timers, warned, collection, chunker, query>>

\* The outermost invocation returns to wrapped_task.
IndexTaskReturns(r) ==
  /\ Len(stack[runs[r].key]) = 1
  /\ AtPc(runs[r].key, "return")
  /\ WrappedReturn(r)
  /\ stack' = [stack EXCEPT ![runs[r].key] = << >>]
  /\ UNCHANGED <<store, calls, tasks, timers, warned, collection, chunker, query>>

\* _on_index_complete without the assignments of lines 140-141.
OnIndexCompleteDocMutant(doc) == doc

\* _on_index_complete, then the finally block of wrapped_task.
OnIndexCompleteDoc(doc) ==
  IF doc.indexing_status # "failed"
    THEN [doc EXCEPT !.indexing_status = "completed", !.indexing_error = NoError]
    ELSE doc

OnIndexComplete(r) ==
  /\ runs[r].pc = "on_complete"
  /\ Save(runs[r].key, OnIndexCompleteDoc(store[runs[r].key]))
  /\ WrappedFinally(r)
  /\ UNCHANGED <<stack, calls, task_status, warned, collection, chunker, query>>

-----------------------------------------------------------------------------
(* The document store raises *)

\* str(error) of the exception that left the work: what _on_index_error
\* stores.
TaskError == [kind |-> "task", step |-> "", attempts |-> 0]

\* The except clause of lines 128-131: the in-memory document is marked
\* failed with f"Unexpected error: ...", and the save of line 132 is next.
GotoUnexpected(d, doc, what) ==
  Goto(d, "u_save",
       [doc EXCEPT !.indexing_status = "failed",
                   !.indexing_error = UnexpectedError(what)], 0)

\* Line 73 is outside the try statement: when DocumentModel.get raises, the
\* exception leaves the invocation.
FetchRaises(d) ==
  /\ AtPc(d, "start")
  /\ Goto(d, "raise", None, 0)
  /\ UNCHANGED <<store, collection, chunker, query>>
  /\ TM_unchanged

\* Lines 73-79 with a save that raises.
SaveProcessingRaises(d) ==
  /\ AtPc(d, "start")
  /\ GotoUnexpected(d, [store[d] EXCEPT !.indexing_status = "processing"], "save")
  /\ UNCHANGED <<store, collection, chunker, query>>
  /\ TM_unchanged

\* Line 68 with a save that raises: the handler was called from an except
\* clause inside the outer try.
HandlerSaveRaises(d) ==
  /\ AtPc(d, "h_save")
  /\ GotoUnexpected(d, Top(d).document, "save")
  /\ UNCHANGED <<store, collection, chunker, query>>
  /\ TM_unchanged

\* Lines 122-124 with a save that raises.
MarkCompletedRaises(d) ==
  /\ AtPc(d, "complete")
  /\ GotoUnexpected(d, Top(d).document, "save")
  /\ UNCHANGED <<store, collection, chunker, query>>
  /\ TM_unchanged

\* Line 132, and the invocation returns.
UnexpectedSave(d) ==
  /\ AtPc(d, "u_save")
  /\ Save(d, Top(d).document)
  /\ Goto(d, "return", Top(d).document, 0)
  /\ UNCHANGED collection
  /\ TM_unchanged

\* Line 132 raises inside the except clause: the exception leaves the
\* invocation.
UnexpectedSaveRaises(d) ==
  /\ AtPc(d, "u_save")
  /\ Goto(d, "raise", Top(d).document, 0)
  /\ UNCHANGED <<store, collection, chunker, query>>
  /\ TM_unchanged

\* The exception of a nested invocation reaches the handler that awaited it
\* (line 66) and from there the except clause of the invocation around it.
RaiseToHandler(d) ==
  /\ AtPc(d, "raise")
  /\ Len(stack[d]) > 1
  /\ LET below == stack[d][Len(stack[d]) - 1] IN
     stack' = [stack EXCEPT
                 ![d] = [SubSeq(@, 1, Len(@) - 1) EXCEPT
                           ![Len(@) - 1] =
                              [below EXCEPT
                                 !.pc = "u_save",
                                 !.document =
                                   [below.document EXCEPT
                                      !.indexing_status = "failed",
                                      !.indexing_error = UnexpectedError("task")],
                                 !.i = 0, !.step = None]]]
  /\ UNCHANGED <<store, collection, chunker, query>>
  /\ TM_unchanged

\* The exception leaves the outermost invocation and reaches wrapped_task.
IndexTaskRaises(r) ==
  /\ Len(stack[runs[r].key]) = 1
  /\ AtPc(runs[r].key, "raise")
  /\ WrappedRaise(r)
  /\ stack' = [stack EXCEPT ![runs[r].key] = << >>]
  /\ UNCHANGED <<store, calls, tasks, timers, warned, collection, chunker, query>>

\* _on_index_error, then the finally block of wrapped_task.
OnIndexError(r) ==
  /\ runs[r].pc = "on_error"
  /\ Save(runs[r].key, [store[runs[r].key] EXCEPT !.indexing_status = "failed",
                                                  !.indexing_error = TaskError])
  /\ WrappedFinally(r)
  /\ UNCHANGED <<stack, calls, task_status, warned, collection, chunker, query>>

Init ==
  /\ store = << >>
  /\ stack = [d \in Docs |-> << >>]
  /\ calls = [d \in Docs |-> 0]
  /\ tasks = << >>
  /\ task_status = << >>
  /\ runs = << >>
  /\ timers = << >>
  /\ warned = [d \in Docs |-> 0]
  /\ collection = {}
  /\ chunker = NoCall
  /\ query = NoCall

NextTM ==
  \/ \E k \in Docs : Submit(k)
  \/ \E k \in Docs : CreateTask(k)
  \/ \E r \in RunIds : StartWork(r)
  \/ \E r \in RunIds : WorkReturns(r)
  \/ \E r \in RunIds : WorkRaises(r)
  \/ \E r \in RunIds : CallbackEnds(r)
  \/ \E r \in RunIds : CallbackRaises(r)
  \/ CleanupStatus

SpecTM == Init /\ [][NextTM]_vars

\* The event loop runs every coroutine that is ready, and a callback that was
\* awaited returns or raises.
FairSpecTM ==
  /\ SpecTM
  /\ \A r \in 1..MaxCalls :
       WF_vars(r \in RunIds /\ (CallbackEnds(r) \/ CallbackRaises(r)))

Next ==
  \/ \E d \in Docs, m \in MaxRetriesChoices : Upload(d, m)
  \/ \E d \in Docs : CreateTask(d)
  \/ \E r \in RunIds : StartIndexTask(r)
  \/ \E d \in Docs : Begin(d)
  \/ \E d \in Docs : ProgressTextExtraction(d)
  \/ \E d \in Docs : ExtractOk(d)
  \/ \E d \in Docs : ExtractFails(d)
  \/ \E d \in Docs : ProgressAnalysis(d)
  \/ \E d \in Docs : AnalyzeOk(d)
  \/ \E d \in Docs : AnalyzeFails(d)
  \/ \E d \in Docs : CompleteAnalysis(d)
  \/ \E d \in Docs : ProgressIndexing(d)
  \/ \E d \in Docs : IndexOk(d)
  \/ \E d \in Docs : IndexFails(d)
  \/ \E d \in Docs : MarkCompleted(d)
  \/ \E d \in Docs : Reinvoke(d)
  \/ \E d \in Docs : ReturnToHandler(d)
  \/ \E d \in Docs : HandlerSave(d)
  \/ \E r \in RunIds : IndexTaskReturns(r)
  \/ \E r \in RunIds : OnIndexComplete(r)
  \/ CleanupStatus

Spec == Init /\ [][Next]_vars

\* The steps of the task of document d: its wrapped_task and the invocations
\* of _index_document_task under it.
Advance(d) ==
  \/ CreateTask(d)
  \/ \E r \in RunIds : runs[r].key = d /\ StartIndexTask(r)
  \/ Begin(d)
  \/ ProgressTextExtraction(d)
  \/ ExtractOk(d)
  \/ ExtractFails(d)
  \/ ProgressAnalysis(d)
  \/ AnalyzeOk(d)
  \/ AnalyzeFails(d)
  \/ CompleteAnalysis(d)
  \/ ProgressIndexing(d)
  \/ IndexOk(d)
  \/ IndexFails(d)
  \/ MarkCompleted(d)
  \/ Reinvoke(d)
  \/ ReturnToHandler(d)
  \/ HandlerSave(d)
  \/ \E r \in RunIds : runs[r].key = d /\ IndexTaskReturns(r)
  \/ \E r \in RunIds : runs[r].key = d /\ OnIndexComplete(r)

\* The document whose task the event loop keeps running: its stage calls
\* return or raise and its sleeps end.  Nothing is assumed of the task of any
\* other document, which may stay suspended at any await for ever.
Scheduled == "d2"

FairSpecDoc == Spec /\ WF_vars(Advance(Scheduled))

\* The program with a document store whose get and save may raise.  A save
\* that raises inside the try block of a stage is one of the ways the stage
\* raises; a get or save that raises inside a callback makes the callback
\* raise.
NextFault ==
  \/ \E d \in Docs, m \in MaxRetriesChoices : Upload(d, m)
  \/ \E d \in Docs : CreateTask(d)
  \/ \E r \in RunIds : StartIndexTask(r)
  \/ \E d \in Docs : Begin(d)
  \/ \E d \in Docs : ProgressTextExtraction(d)
  \/ \E d \in Docs : ExtractOk(d)
  \/ \E d \in Docs : ExtractFails(d)
  \/ \E d \in Docs : ProgressAnalysis(d)
  \/ \E d \in Docs : AnalyzeOk(d)
  \/ \E d \in Docs : AnalyzeFails(d)
  \/ \E d \in Docs : CompleteAnalysis(d)
  \/ \E d \in Docs : ProgressIndexing(d)
  \/ \E d \in Docs : IndexOk(d)
  \/ \E d \in Docs : IndexFails(d)
  \/ \E d \in Docs : MarkCompleted(d)
  \/ \E d \in Docs : Reinvoke(d)
  \/ \E d \in Docs : ReturnToHandler(d)
  \/ \E d \in Docs : HandlerSave(d)
  \/ \E r \in RunIds : IndexTaskReturns(r)
  \/ \E r \in RunIds : OnIndexComplete(r)
  \/ CleanupStatus
  \/ \E d \in Docs : FetchRaises(d)
  \/ \E d \in Docs : SaveProcessingRaises(d)
  \/ \E d \in Docs : HandlerSaveRaises(d)
  \/ \E d \in Docs : MarkCompletedRaises(d)
  \/ \E d \in Docs : UnexpectedSave(d)
  \/ \E d \in Docs : UnexpectedSaveRaises(d)
  \/ \E d \in Docs : RaiseToHandler(d)
  \/ \E r \in RunIds : IndexTaskRaises(r)
  \/ \E r \in RunIds : OnIndexError(r)
  \/ \E r \in RunIds : CallbackRaises(r)

SpecFault == Init /\ [][NextFault]_vars

\* The same program serving a single upload: the outcome of one registry task
\* under every failure of the store.
OneDoc == {"d1"}

NextFaultOne ==
  \/ \E d \in OneDoc, m \in MaxRetriesChoices : Upload(d, m)
  \/ \E d \in OneDoc : CreateTask(d)
  \/ \E r \in RunIds : StartIndexTask(r)
  \/ \E d \in OneDoc : Begin(d)
  \/ \E d \in OneDoc : ProgressTextExtraction(d)
  \/ \E d \in OneDoc : ExtractOk(d)
  \/ \E d \in OneDoc : ExtractFails(d)
  \/ \E d \in OneDoc : ProgressAnalysis(d)
  \/ \E d \in OneDoc : AnalyzeOk(d)
  \/ \E d \in OneDoc : AnalyzeFails(d)
  \/ \E d \in OneDoc : CompleteAnalysis(d)
  \/ \E d \in OneDoc : ProgressIndexing(d)
  \/ \E d \in OneDoc : IndexOk(d)
  \/ \E d \in OneDoc : IndexFails(d)
  \/ \E d \in OneDoc : MarkCompleted(d)
  \/ \E d \in OneDoc : Reinvoke(d)
  \/ \E d \in OneDoc : ReturnToHandler(d)
  \/ \E d \in OneDoc : HandlerSave(d)
  \/ \E r \in RunIds : IndexTaskReturns(r)
  \/ \E r \in RunIds : OnIndexComplete(r)
  \/ CleanupStatus
  \/ \E d \in OneDoc : FetchRaises(d)
  \/ \E d \in OneDoc : SaveProcessingRaises(d)
  \/ \E d \in OneDoc : HandlerSaveRaises(d)
  \/ \E d \in OneDoc : MarkCompletedRaises(d)
  \/ \E d \in OneDoc : UnexpectedSave(d)
  \/ \E d \in OneDoc : UnexpectedSaveRaises(d)
  \/ \E d \in OneDoc : RaiseToHandler(d)
  \/ \E r \in RunIds : IndexTaskRaises(r)
  \/ \E r \in RunIds : OnIndexError(r)
  \/ \E r \in RunIds : CallbackRaises(r)

SpecFaultOne == Init /\ [][NextFaultOne]_vars

-----------------------------------------------------------------------------
(* RAGService._chunk_text *)

\* Bounds on the arguments of _chunk_text: length of the token sequence and
\* chunk_size; overlap ranges up to chunk_size + 1.
MaxTokens == 25

MaxChunkSize == 10

Min(a, b) == IF a < b THEN a ELSE b

\* The token sequence of a text of n tokens whose tokens after the first
\* `words` are whitespace: "w" is a token with a visible character, "s" a
\* token of whitespace only.
Tokens(n, words) == [k \in 1..n |-> IF k <= words THEN "w" ELSE "s"]

\* range(start, stop, step) for start <= stop, as the list of its values;
\* a negative step gives the empty range.
RECURSIVE Range(_, _, _)
Range(start, stop, step) ==
  IF step <= 0 \/ start >= stop THEN << >>
  ELSE <<start>> \o Range(start + step, stop, step)

\* The step with the overlap added in place of subtracted.
StrideMutant(chunk_size, overlap) == chunk_size + overlap

\* stride = chunk_size - overlap (line 42).
Stride(chunk_size, overlap) == chunk_size - overlap

\* tokens[i:j] for 0 <= i: the slice stops at the end of the list.
Slice(tokens, i, j) == SubSeq(tokens, i + 1, Min(j, Len(tokens)))

\* re.sub(r'\s+', ' ', text): a run of whitespace becomes one blank.
RECURSIVE Collapse(_)
Collapse(text) ==
  IF Len(text) <= 1 THEN text
  ELSE IF text[1] = "s" /\ text[2] = "s" THEN Collapse(Tail(text))
  ELSE <<text[1]>> \o Collapse(Tail(text))

\* str.strip() after the substitution: at most one blank at either end.
Strip(text) ==
  LET l == IF text # << >> /\ text[1] = "s" THEN Tail(text) ELSE text IN
  IF l # << >> /\ l[Len(l)] = "s" THEN SubSeq(l, 1, Len(l) - 1) ELSE l

\* decode, then lines 46-47.
ChunkOf(window) == Strip(Collapse(window))

\* The windows the loop of lines 43-44 takes: start offset and tokens.
Windows(tokens, chunk_size, overlap) ==
  LET starts == Range(0, Len(tokens), Stride(chunk_size, overlap)) IN
  [k \in 1..Len(starts) |->
     [start |-> starts[k],
      tokens |-> Slice(tokens, starts[k], starts[k] + chunk_size)]]

\* The chunks appended at lines 48-49: the non-empty cleaned windows.
RECURSIVE Chunks(_)
Chunks(windows) ==
  IF windows = << >> THEN << >>
  ELSE LET text == ChunkOf(windows[1].tokens) IN
       (IF text # << >> THEN <<text>> ELSE << >>) \o Chunks(Tail(windows))

\* A call _chunk_text(text, chunk_size, overlap) that has encoded the text.
ChunkCall(tokens, chunk_size, overlap) ==
  [pc |-> "called", tokens |-> tokens, chunk_size |-> chunk_size,
   overlap |-> overlap, windows |-> << >>, chunks |-> << >>]

\* The loop runs and the call returns; range() raises ValueError for a
\* step of zero.
ChunkText ==
  /\ chunker.pc = "called"
  /\ chunker' =
       IF Stride(chunker.chunk_size, chunker.overlap) = 0
         THEN [chunker EXCEPT !.pc = "raised"]
         ELSE LET w == Windows(chunker.tokens, chunker.chunk_size, chunker.overlap) IN
              [chunker EXCEPT !.pc = "returned", !.windows = w, !.chunks = Chunks(w)]
  /\ UNCHANGED <<store, stack, calls, tasks, task_status, runs, timers, warned,
                 collection, query>>

InitChunk ==
  /\ store = << >>
  /\ stack = [d \in Docs |-> << >>]
  /\ calls = [d \in Docs |-> 0]
  /\ tasks = << >>
  /\ task_status = << >>
  /\ runs = << >>
  /\ timers = << >>
  /\ warned = [d \in Docs |-> 0]
  /\ collection = {}
  /\ query = NoCall
  /\ \E n \in 0..MaxTokens, c \in 1..MaxChunkSize :
       \E words \in 0..n, o \in 0..(c + 1) :
         chunker = ChunkCall(Tokens(n, words), c, o)

NextChunk == ChunkText

SpecChunk == InitChunk /\ [][NextChunk]_vars

-----------------------------------------------------------------------------
(* RAGService.search_documents and query_documents *)

\* The distances the collection reports, in tenths.
Distances == 1..5

\* The length of the slice search_results[:5].
top_chunks_len == 5

\* Size of the largest collection: one chunk more than the slice keeps.
MaxResults == top_chunks_len + 1

\* collection.query with n_results = collection.count(): every chunk of the
\* collection, nearest first.  A row is the document_id of the metadata and
\* the distance; the rows of n chunks with distances from lo on:
RECURSIVE RankedRows(_, _)
RankedRows(n, lo) ==
  IF n = 0 THEN {<< >>}
  ELSE UNION {{<<[document_id |-> d, distance |-> x]>> \o rest :
                 rest \in RankedRows(n - 1, x)} :
              d \in Docs, x \in {y \in Distances : y >= lo}}

\* "similarity": 1 - distance (line 104), in tenths.
Similarity(distance) == 10 - distance

\* formatted_results of search_documents: one entry per row, in the order of
\* the rows; the chunk id and the text of a chunk are its rank in the rows.
search_documents(rows) ==
  [k \in 1..Len(rows) |->
     [chunk_id |-> k, text |-> k, document_id |-> rows[k].document_id,
      similarity |-> Similarity(rows[k].distance)]]

\* The slice of line 120 left out.
top_chunks_mutant(search_results) == search_results

\* top_chunks = search_results[:5]
top_chunks(search_results) ==
  SubSeq(search_results, 1, Min(top_chunks_len, Len(search_results)))

context_chunks(chunks) == [k \in 1..Len(chunks) |-> chunks[k].text]

\* "\n\n".join(context_chunks): the texts with the separator between them.
RECURSIVE Join(_, _)
Join(sep, texts) ==
  IF Len(texts) <= 1 THEN texts
  ELSE <<texts[1], sep>> \o Join(sep, Tail(texts))

\* qa_service.answer_question: an exception of the pipeline is caught and
\* returned as the answer, with confidence 0.0.
answer_question(context, pipeline_raises) ==
  IF pipeline_raises
    THEN [answer |-> "Error processing question", confidence |-> 0, success |-> FALSE]
    ELSE [answer |-> "answer", confidence |-> 9, success |-> TRUE]

\* The test of line 139 left out.
InSourcesMutant(source_documents, doc_id) == FALSE

\* doc_id in source_documents
InSources(source_documents, doc_id) ==
  \E k \in 1..Len(source_documents) : source_documents[k].id = doc_id

\* The loop of line 138 over top_chunks in place of search_results.
SourceRowsMutant(search_results) == top_chunks(search_results)

\* The list the loop of line 138 walks.
SourceRows(search_results) == search_results

\* Lines 138-147: source_documents in insertion order; known are the ids
\* DocumentModel.get finds.
RECURSIVE Sources(_, _, _)
Sources(results, known, source_documents) ==
  IF results = << >> THEN source_documents
  ELSE LET result == Head(results)
           doc_id == result.document_id IN
       IF ~InSources(source_documents, doc_id) /\ doc_id \in known
         THEN Sources(Tail(results), known,
                      Append(source_documents,
                             [id |-> doc_id, similarity |-> result.similarity]))
         ELSE Sources(Tail(results), known, source_documents)

\* The steps of query_documents that may raise.
Faults == {"embedding", "search", "synthesis"}

\* A call query_documents(query) against a collection holding rows, with a
\* document store that knows the documents in known.
QueryCall(rows, known) ==
  [pc |-> "called", rows |-> rows, known |-> known, fault |-> None,
   search_results |-> << >>, combined_context |-> << >>,
   answer |-> None, confidence |-> 0, sources |-> << >>, error |-> << >>]

\* query_documents runs.  An exception of the embedding model or of the
\* collection is wrapped by search_documents and again by query_documents.
QueryDocuments(fault) ==
  /\ query.pc = "called"
  /\ query' =
       IF fault \in {"embedding", "search"}
         THEN [query EXCEPT
                 !.pc = "raised", !.fault = fault,
                 !.error = <<"Error querying documents",
                             "Error searching documents", fault>>]
         ELSE LET search_results == search_documents(query.rows)
                  combined_context ==
                    Join("\n\n", context_chunks(top_chunks(search_results)))
                  result == answer_question(combined_context, fault = "synthesis") IN
              [query EXCEPT
                 !.pc = "returned", !.fault = fault,
                 !.search_results = search_results,
                 !.combined_context = combined_context,
                 !.answer = result.answer,
                 !.confidence = result.confidence,
                 !.sources = Sources(SourceRows(search_results), query.known, << >>)]
  /\ UNCHANGED <<store, stack, calls, tasks, task_status, runs, timers, warned,
                 collection, chunker>>

InitQuery ==
  /\ store = << >>
  /\ stack = [d \in Docs |-> << >>]
  /\ calls = [d \in Docs |-> 0]
  /\ tasks = << >>
  /\ task_status = << >>
  /\ runs = << >>
  /\ timers = << >>
  /\ warned = [d \in Docs |-> 0]
  /\ collection = {}
  /\ chunker = NoCall
  /\ \E n \in 1..MaxResults, known \in SUBSET Docs :
       \E rows \in RankedRows(n, 0) : query = QueryCall(rows, known)

NextQuery == \E fault \in Faults \cup {None} : QueryDocuments(fault)

SpecQuery == InitQuery /\ [][NextQuery]_vars

-----------------------------------------------------------------------------
(* Claims *)

\* No invocation of document d is at, or can still reach, a stage call.
NoStageAhead(d) ==
  \A i \in 1..Len(stack[d]) : stack[d][i].pc \in {"return", "h_await", "h_save"}

\* C1: for every document and stage the persisted retry counter is at most
\* max_retries, and when it equals max_retries the persisted status is failed
\* and no stage of the document is executed any more.
C1_RetryBound ==
  \A d \in DOMAIN store : \A s \in Stages :
    /\ store[d].processing_retries[s] <= store[d].max_retries
    /\ store[d].processing_retries[s] = store[d].max_retries =>
         /\ store[d].indexing_status = "failed"
         /\ NoStageAhead(d)

C1_Witness ==
  \E d \in DOMAIN store : \E s \in Stages :
    /\ store[d].processing_retries[s] = store[d].max_retries
    /\ store[d].indexing_status = "failed"
    /\ store[d].indexing_error = FailedToProcess(s, store[d].max_retries)

\* C2: a document whose persisted status is completed has progress 1.0 for
\* all six stages and no error message.
C2_CompletedMeansAllDone ==
  \A d \in DOMAIN store :
    store[d].indexing_status = "completed" =>
      /\ \A s \in Stages : store[d].processing_progress[s] = 10
      /\ store[d].indexing_error = NoError

\* C3: when text extraction has failed in max_retries = 3 successive
\* invocations for a document, the third failure marks the document failed
\* with the message naming text_extraction and 3 attempts, and schedules no
\* further invocation.
C3_ExtractionFailureStops ==
  \A d \in DOMAIN store :
    ( /\ store[d].max_retries = max_retries_default
      /\ Len(stack[d]) >= max_retries_default
      /\ \A i \in 1..max_retries_default : stack[d][i].step = "text_extraction" )
    => LET f == stack[d][max_retries_default] IN
         /\ f.pc \in {"h_save", "return"}
         /\ f.document.indexing_status = "failed"
         /\ f.document.indexing_error =
              FailedToProcess("text_extraction", max_retries_default)

\* C4: a create_task call for a key that is in the active-task map changes
\* neither the map, nor the status table, nor the set of tasks, and at every
\* moment at most one task per key has not finished.
ActiveRuns(k) == {r \in RunIds : runs[r].key = k /\ runs[r].pc # "done"}

C4_AtMostOneTaskPerKey ==
  /\ [](\A k \in Docs : Cardinality(ActiveRuns(k)) <= 1)
  /\ [][\A k \in Docs :
          (calls'[k] < calls[k] /\ k \in DOMAIN tasks) =>
            (tasks' = tasks /\ task_status' = task_status /\ runs' = runs)]_vars

C4_Witness ==
  \E k \in Docs : warned[k] > 0 /\ k \in DOMAIN tasks /\ Cardinality(ActiveRuns(k)) = 1

\* C5: the persisted status of a document moves only from pending to
\* processing and from processing to completed or failed; completed and
\* failed never change again.
StatusMove(a, b) ==
  \/ a = b
  \/ a = "pending" /\ b = "processing"
  \/ a = "processing" /\ b \in {"completed", "failed"}

C5_StatusLifecycle ==
  [][\A d \in DOMAIN store :
       StatusMove(store[d].indexing_status, store'[d].indexing_status)]_vars

\* C6: when the analysis call raises for a document whose retry budget is
\* more than one attempt, the handler increments a retry counter and the
\* document is not marked failed.
C6_AnalysisRetried ==
  \A d \in DOMAIN store : \A i \in 1..Len(stack[d]) :
    LET f == stack[d][i] IN
    (f.step = "document_analysis" /\ f.document.max_retries > 1) =>
      /\ \E s \in DOMAIN f.document.processing_retries :
           f.document.processing_retries[s] > 0
      /\ f.document.indexing_status # "failed"

\* C7: when a re-invocation that followed a stage failure has run every
\* stage successfully (the document is indexed and a retry counter is
\* positive), then after the task and its completion callback have finished
\* the persisted status is completed and the error field is empty.
SucceededAfterRetry(r) ==
  LET d == runs[r].key IN
  /\ runs[r].pc = "done"
  /\ d \in collection
  /\ \E s \in Stages : store[d].processing_retries[s] > 0

C7_SuccessAfterRetryCompletes ==
  \A r \in RunIds :
    SucceededAfterRetry(r) =>
      /\ store[runs[r].key].indexing_status = "completed"
      /\ store[runs[r].key].indexing_error = NoError

C7_Witness ==
  \E r \in RunIds :
    /\ SucceededAfterRetry(r)
    /\ store[runs[r].key].indexing_status = "completed"

\* C8: a run whose work returned records status completed and invokes
\* on_complete; a run whose work raised records status failed and invokes
\* on_error.
C8_OutcomeRecorded ==
  \A r \in RunIds :
    /\ runs[r].work = "returned" =>
         (runs[r].recorded = "completed" /\ runs[r].callback = "on_complete")
    /\ runs[r].work = "raised" =>
         (runs[r].recorded = "failed" /\ runs[r].callback = "on_error")

\* C9: a status entry is removed only by the timer of the run that wrote it.
C9_TimerSparesNewerRun ==
  [][\A k \in DOMAIN task_status :
       k \notin DOMAIN task_status' =>
         (timers # << >> /\ Writer(task_status[k]) = Head(timers))]_vars

\* C10: for a key in the active-task map get_task_status reports state
\* running with a start time.
C10_ActiveKeyIsRunning ==
  \A k \in Docs :
    is_task_running(k) =>
      LET e == get_task_status(k) IN
      /\ "status" \in DOMAIN e
      /\ e.status = "running"
      /\ "start_time" \in DOMAIN e

\* C11: once the work of a run has ended (returned or raised), the run
\* finishes with its key no longer mapped to it in the active-task map,
\* whether its callback returned or raised; and a create_task call that
\* finds the key absent from the map creates and registers a new run.
RunOver(r) ==
  /\ r \in RunIds
  /\ runs[r].pc = "done"
  /\ ~(runs[r].key \in DOMAIN tasks /\ tasks[runs[r].key] = r)

C11_KeyRemovedThenReusable ==
  /\ \A r \in 1..MaxCalls :
       (r \in RunIds /\ runs[r].callback # None) ~> RunOver(r)
  /\ [][\A k \in Docs :
          (calls'[k] < calls[k] /\ k \notin DOMAIN tasks) =>
            /\ Len(runs') = Len(runs) + 1
            /\ runs'[Len(runs')].key = k
            /\ k \in DOMAIN tasks'
            /\ tasks'[k] = Len(runs')]_vars

\* A key is resubmitted after a run of it whose callback raised was removed.
C11_Witness ==
  \E r1, r2 \in RunIds :
    /\ r1 < r2
    /\ runs[r1].key = runs[r2].key
    /\ RunOver(r1)
    /\ runs[r1].cb = "raised"
    /\ tasks[runs[r2].key] = r2

\* C12: no exception leaves wrapped_task, so none reaches whoever called
\* create_task; the outcome recorded for a run when its work ended never
\* changes afterwards; and the step in which a callback raises leaves the
\* status entries as they were and removes the key from the active-task map.
CallbackRaisedNow(r) == runs[r].cb = None /\ runs'[r].cb = "raised"

C12_CallbackExceptionContained ==
  [][\A r \in RunIds :
       /\ runs'[r].pc # "crashed"
       /\ runs[r].recorded # None => runs'[r].recorded = runs[r].recorded
       /\ CallbackRaisedNow(r) =>
            /\ task_status' = task_status
            /\ runs'[r].recorded = runs[r].recorded
            /\ runs'[r].pc = "done"
            /\ runs[r].key \notin DOMAIN tasks']_vars

\* An on_complete and an on_error callback have both raised.
C12_Witness ==
  \E r1, r2 \in RunIds :
    /\ runs[r1].cb = "raised" /\ runs[r1].recorded = "completed"
    /\ runs[r2].cb = "raised" /\ runs[r2].recorded = "failed"

\* C13: an exception raised in an invocation of _index_document_task outside
\* the three stage handlers never leaves the invocation: the invocation
\* marks the document failed with the message Unexpected error, so that the
\* error text stored for a document is never the bare text of an exception
\* that reached wrapped_task.
C13_UnexpectedErrorCaught ==
  \A d \in DOMAIN store :
    /\ \A i \in 1..Len(stack[d]) : stack[d][i].pc # "raise"
    /\ store[d].indexing_error.kind # "task"


\* C14: an invocation is at the analysis stage or beyond only after its own
\* text extraction succeeded, at the indexing stage or beyond only after the
\* analysis call and the whole analysis group succeeded in it, and an
\* invocation in which extraction or analysis raised is in its error
\* handler or has returned: it never runs the indexing stage.
AnalysisPcs == {"an_pre", "an_call", "an_post"}

IndexingPcs == {"rag_progress", "rag_index", "complete"}

HandlerPcs == {"h_sleep", "h_await", "h_save", "return"}

C14_StagesInOrder ==
  \A d \in DOMAIN store : \A i \in 1..Len(stack[d]) :
    LET f == stack[d][i] IN
    /\ f.pc \in AnalysisPcs \cup IndexingPcs =>
         /\ f.step = None
         /\ f.reported["text_extraction"] = 10
         /\ f.document.file_text_content = "text"
    /\ f.pc \in IndexingPcs =>
         /\ \A t \in 1..Len(analysis_tasks) : f.reported[analysis_tasks[t][1]] = 10
         /\ f.document.file_extracted_details = "analysis"
    /\ f.step # None =>
         /\ f.pc \in HandlerPcs
         /\ f.reported["rag_indexing"] = 0 \/ f.step = "rag_indexing"

\* An invocation whose extraction raised waits in its handler while the
\* invocation it started is at the indexing call.
C14_Witness ==
  \E d \in DOMAIN store :
    /\ Len(stack[d]) = 2
    /\ stack[d][1].step = "text_extraction"
    /\ stack[d][2].pc = "rag_index"

WindowStarts == [k \in 1..Len(chunker.windows) |-> chunker.windows[k].start]

C16_WindowsCoverTokens ==
  LET n == Len(chunker.tokens)
      c == chunker.chunk_size
      o == chunker.overlap
      w == chunker.windows IN
  (chunker.pc \in {"returned", "raised"} /\ c - o > 0) =>
    /\ chunker.pc = "returned"
    /\ \A k \in 1..Len(w) : w[k].start = (k - 1) * (c - o) /\ w[k].start < n
    /\ \A t \in 0..(n - 1) : t % (c - o) = 0 => \E k \in 1..Len(w) : w[k].start = t
    /\ \A k \in 1..Len(w) :
         /\ Len(w[k].tokens) <= c
         /\ \A j \in 1..Len(w[k].tokens) : w[k].tokens[j] = chunker.tokens[w[k].start + j]
    /\ \A t \in 0..(n - 1) :
         \E k \in 1..Len(w) : w[k].start <= t /\ t < w[k].start + Len(w[k].tokens)
    /\ (n = 25 /\ c = 10 /\ o = 2) => WindowStarts = <<0, 8, 16, 24>>

C16_Witness ==
  /\ chunker.pc = "returned"
  /\ Len(chunker.tokens) = 25 /\ chunker.chunk_size = 10 /\ chunker.overlap = 2
  /\ WindowStarts = <<0, 8, 16, 24>>
  /\ Len(chunker.windows[4].tokens) = 1


\* C17: the sources list query_documents returns holds at most one entry
\* per document id.
C17_OneSourcePerDocument ==
  query.pc = "returned" =>
    \A i, j \in 1..Len(query.sources) :
      query.sources[i].id = query.sources[j].id => i = j

\* Two documents have several chunks each among the results and each has
\* one entry.
C17_Witness ==
  /\ query.pc = "returned"
  /\ Len(query.sources) = 2
  /\ \A d \in Docs :
       Cardinality({k \in 1..Len(query.rows) : query.rows[k].document_id = d}) >= 2

\* C18: the similarity of a search result is 1 - distance; the context is
\* made of the min(5, number of results) results that come first when the
\* results are ordered by descending similarity, ties in their original
\* order, in that order, with the blank-line separator between
\* consecutive texts.
Outranks(results, j, i) ==
  \/ results[j].similarity > results[i].similarity
  \/ results[j].similarity = results[i].similarity /\ j < i

PlaceOf(results, i) ==
  1 + Cardinality({j \in 1..Len(results) : Outranks(results, j, i)})

C18_ContextIsTopFive ==
  query.pc = "returned" =>
    LET results == query.search_results
        context == query.combined_context
        kept == IF Len(results) < 5 THEN Len(results) ELSE 5 IN
    /\ Len(results) = Len(query.rows)
    /\ \A i \in 1..Len(results) : results[i].similarity = 10 - query.rows[i].distance
    /\ Len(context) = 2 * kept - 1
    /\ \A i \in 1..Len(results) :
         PlaceOf(results, i) <= 5 => context[2 * PlaceOf(results, i) - 1] = results[i].text
    /\ \A p \in 1..(kept - 1) : context[2 * p] = "\n\n"

\* Six results, two of them tied at the fifth place: the earlier one is in
\* the context and the later one is not.
C18_Witness ==
  /\ query.pc = "returned"
  /\ Len(query.search_results) = 6
  /\ query.search_results[5].similarity = query.search_results[6].similarity
  /\ Len(query.combined_context) = 9
  /\ query.combined_context[9] = query.search_results[5].text

\* C19: when the embedding of the query, the search of the collection or
\* the answer synthesis fails, query_documents raises a wrapped error and
\* returns no result.
C19_FailureIsRaised ==
  (query.pc \in {"returned", "raised"} /\ query.fault \in Faults) =>
    /\ query.pc = "raised"
    /\ query.error # << >>
    /\ query.error[1] = "Error querying documents"

\* C20: the sources are built from the whole result list: a document id has
\* an entry exactly when it occurs in some result and the document store
\* resolves it, and the similarity of the entry is that of the first result
\* of the document in the order search_documents returned; for A at 0.9,
\* 0.7, 0.5 and B at 0.8, 0.6 the sources are A at 0.9 and B at 0.8.
FirstResultOf(results, d) ==
  CHOOSE i \in 1..Len(results) :
    /\ results[i].document_id = d
    /\ \A j \in 1..(i - 1) : results[j].document_id # d

ExampleRows ==
  <<[document_id |-> "d1", distance |-> 1], [document_id |-> "d2", distance |-> 2],
    [document_id |-> "d1", distance |-> 3], [document_id |-> "d2", distance |-> 4],
    [document_id |-> "d1", distance |-> 5]>>

C20_SourcesFromAllResults ==
  query.pc = "returned" =>
    LET results == query.search_results
        occurring == {results[i].document_id : i \in 1..Len(results)} IN
    /\ {query.sources[k].id : k \in 1..Len(query.sources)} = occurring \cap query.known
    /\ \A k \in 1..Len(query.sources) :
         query.sources[k].similarity =
           results[FirstResultOf(results, query.sources[k].id)].similarity
    /\ (query.rows = ExampleRows /\ query.known = Docs) =>
         query.sources = <<[id |-> "d1", similarity |-> 9], [id |-> "d2", similarity |-> 8]>>

\* A document whose only chunk is the sixth result has an entry.
C20_Witness ==
  /\ query.pc = "returned"
  /\ Len(query.search_results) = 6
  /\ \A i \in 1..5 : query.search_results[i].document_id = "d1"
  /\ query.search_results[6].document_id = "d2"
  /\ \E k \in 1..Len(query.sources) :
       /\ query.sources[k].id = "d2"
       /\ query.sources[k].similarity = query.search_results[6].similarity


\* C21: for overlap >= chunk_size a call of _chunk_text on a text with at
\* least one token either raises or returns windows that cover every token.
C21_NonPositiveStrideRejected ==
  LET n == Len(chunker.tokens)
      w == chunker.windows IN
  (/\ chunker.pc \in {"returned", "raised"}
   /\ chunker.overlap >= chunker.chunk_size
   /\ n > 0) =>
    \/ chunker.pc = "raised"
    \/ \A t \in 0..(n - 1) :
         \E k \in 1..Len(w) : w[k].start <= t /\ t < w[k].start + Len(w[k].tokens)


\* C22: a handler that waits before a re-invocation waits 2^r units, r being
\* the number of failures of its stage so far in the task of the document,
\* so that successive failures of one stage wait 2, 4, 8.
Waiting(f) == f.pc \in {"h_sleep", "h_await"}

FailuresSoFar(d, i) ==
  Cardinality({j \in 1..i : stack[d][j].step = stack[d][i].step})

C22_BackoffDoubles ==
  \A d \in DOMAIN store : \A i \in 1..Len(stack[d]) :
    LET f == stack[d][i] IN
    Waiting(f) =>
      backoff(f.document.processing_retries[f.step]) = 2 ^ FailuresSoFar(d, i)


\* C25: when an invocation begins (it is about to load the document), the
\* stored retry counters and progress values are those of the in-memory
\* document of the handler that started it: the increment that caused the
\* re-invocation has been saved.
C25_CountersSavedBeforeReinvocation ==
  \A d \in DOMAIN store : \A i \in 2..Len(stack[d]) :
    stack[d][i].pc = "start" =>
      /\ store[d].processing_retries = stack[d][i - 1].document.processing_retries
      /\ store[d].processing_progress = stack[d][i - 1].document.processing_progress


\* C24: the invocation started by the handler of a rag_indexing failure
\* begins at the start of the pipeline: it has reported nothing when it
\* begins, it reports analysis progress only after its own text extraction
\* succeeded, and it is at the indexing stage only after its own extraction
\* and its own analysis group succeeded.
C24_RetryRestartsPipeline ==
  \A d \in DOMAIN store : \A i \in 1..(Len(stack[d]) - 1) :
    stack[d][i].step = "rag_indexing" =>
      LET g == stack[d][i + 1] IN
      /\ g.pc = "start" => \A s \in Stages : g.reported[s] = 0
      /\ \A t \in 1..Len(analysis_tasks) :
           g.reported[analysis_tasks[t][1]] > 0 => g.reported["text_extraction"] = 10
      /\ g.reported["rag_indexing"] > 0 =>
           /\ g.reported["text_extraction"] = 10
           /\ \A t \in 1..Len(analysis_tasks) : g.reported[analysis_tasks[t][1]] = 10
      /\ g.pc \in IndexingPcs =>
           /\ g.reported["text_extraction"] = 10
           /\ \A t \in 1..Len(analysis_tasks) : g.reported[analysis_tasks[t][1]] = 10

\* The re-invocation after a rag_indexing failure has run extraction and
\* analysis again and reports the start of indexing for the second time.
C24_Witness ==
  \E d \in DOMAIN store :
    /\ Len(stack[d]) = 2
    /\ stack[d][1].step = "rag_indexing"
    /\ stack[d][1].document.processing_retries["rag_indexing"] < stack[d][1].document.max_retries
    /\ stack[d][2].pc = "rag_index"
    /\ stack[d][2].reported["rag_indexing"] = 7


\* C27: the callback a run invokes is chosen once, when its work has ended,
\* and never changes; while the callback runs the only step of the run is
\* the end of that callback, after which the run is over for good.  So a run
\* invokes at most one of on_complete and on_error, at most once, and an
\* on_complete that raises is not followed by on_error.
C27_AtMostOneCallback ==
  [][\A r \in RunIds :
       /\ runs[r].callback # None => runs'[r].callback = runs[r].callback
       /\ runs[r].pc \in {"on_complete", "on_error"} =>
            runs'[r].pc \in {runs[r].pc, "done"}
       /\ runs[r].pc = "done" => runs'[r].pc = "done"
       /\ runs'[r].callback = "on_complete" => runs'[r].work = "returned"]_vars

\* A run whose on_complete raised is over and on_error was not invoked.
C27_Witness ==
  \E r \in RunIds :
    /\ runs[r].pc = "done"
    /\ runs[r].callback = "on_complete"
    /\ runs[r].cb = "raised"


\* C28: a document whose stored status is completed has a stored analysis
\* result and the stored text of an extraction, and some invocation of its
\* task ran every stage to the end (its chunks are in the collection).
C28_CompletedHasResults ==
  \A d \in DOMAIN store :
    store[d].indexing_status = "completed" =>
      /\ store[d].file_extracted_details = "analysis"
      /\ store[d].file_text_content = "text"
      /\ d \in collection


\* C26: when the work of a registry task ends, the task is recorded completed
\* and on_complete is the callback awaited, whatever status the pipeline gave
\* the document, unless an exception left _index_document_task; then the task
\* is recorded failed and on_error is awaited.
Escaped(d) == AtPc(d, "raise")
C26_TaskCompletesUnlessEscaped ==
  [][\A r \in RunIds :
       LET d == runs[r].key IN
       (runs[r].pc = "working" /\ runs'[r].pc # "working") =>
            IF Escaped(d)
              THEN /\ runs'[r].recorded = "failed"
                   /\ runs'[r].callback = "on_error"
                   /\ task_status'[d].status = "failed"
              ELSE /\ runs'[r].recorded = "completed"
                   /\ runs'[r].callback = "on_complete"
                   /\ task_status'[d].status = "completed"]_vars

C26_Witness ==
  \E r \in RunIds :
    /\ runs[r].pc = "done"
    /\ runs[r].recorded = "completed"
    /\ runs[r].callback = "on_complete"
    /\ runs[r].cb = "returned"
    /\ store[runs[r].key].indexing_status = "failed"

\* C23: the task of a document whose own steps keep being run reaches a
\* terminal status (its wrapped_task has ended and the stored status is
\* completed or failed), or the nesting bound of the model, whatever the task
\* of another document does: suspended for ever in a stage call or a backoff
\* sleep, or failing again and again.
Finished(d) ==
  /\ \E r \in RunIds : runs[r].key = d /\ runs[r].pc = "done"
  /\ stack[d] = << >>
  /\ store[d].indexing_status \in {"completed", "failed"}

AtDepthBound(d) == Len(stack[d]) = MaxDepth /\ AtPc(d, "h_sleep")

C23_DocumentsIndependent ==
  (Scheduled \in DOMAIN store) ~> (Finished(Scheduled) \/ AtDepthBound(Scheduled))

C23_Witness ==
  \E o \in DOMAIN store \ {Scheduled} :
    /\ Scheduled \in DOMAIN store
    /\ Finished(Scheduled)
    /\ Len(stack[o]) >= 2
    /\ Top(o).pc \in {"h_sleep", "te_extract"}

=============================================================================
